---- MODULE Spec2Model ----
(***************************************************************************)
(* Palm UPI payment system (src/plam.py): the session-state template       *)
(* store, enrollment, the point-set matcher, authentication and the        *)
(* simulated payment, together with the two button handlers of main().     *)
(***************************************************************************)
EXTENDS Integers, Sequences, FiniteSets, TLC

(***************************************************************************)
(* Bounds of the model.                                                    *)
(***************************************************************************)
MaxStore == 1      \* distinct keys the store may take while handlers run
MaxClock == 1      \* clock readings are 0..MaxClock (whole seconds)
MaxTxn == 2        \* transactions minted in one logged run
MaxEnroll == 3     \* enrollments behind a store given to authenticate_palm
MaxLen == 2        \* length of the point lists given to the matcher alone

(***************************************************************************)
(* Python values.                                                          *)
(***************************************************************************)
\* None, where the code compares or tests it against a palm id
None == "None"

\* integer square, (a - b)**2
Sq(a) == a * a

RECURSIVE GCD(_, _)
GCD(a, b) == IF b = 0 THEN a ELSE GCD(b, a % b)

\* matches / len(features1): a float, kept as the reduced fraction <<num, den>>
Frac(m, n) == LET g == GCD(m, n) IN IF g = 0 THEN <<0, 1>> ELSE <<m \div g, n \div g>>

\* the int 0 the code uses as a score
Zero == <<0, 1>>

\* a > b on scores
ScoreGt(a, b) == a[1] * b[2] > b[1] * a[2]

\* 0.8, the literal of line 102
AcceptThreshold == <<4, 5>>

\* threshold = 10 of line 120
threshold == 10

\* s[-n:]
Last(s, n) == IF Len(s) <= n THEN s ELSE SubSeq(s, Len(s) - n + 1, Len(s))

\* str() of a list of (cx, cy) tuples, e.g. "[(0, 0), (50, 0)]"
StrPoint(p) == "(" \o ToString(p[1]) \o ", " \o ToString(p[2]) \o ")"

RECURSIVE StrPoints(_)
StrPoints(ps) ==
    IF ps = <<>> THEN ""
    ELSE IF Len(ps) = 1 THEN StrPoint(ps[1])
    ELSE StrPoint(ps[1]) \o ", " \o StrPoints(Tail(ps))

StrList(ps) == "[" \o StrPoints(ps) \o "]"

\* hashlib.sha256(s.encode()).hexdigest(): one digest per string
Sha256Hex(s) == "sha256:" \o s

(***************************************************************************)
(* Images.  An image is what findContours and moments report for it: a     *)
(* list of contours, each with its area and its moments m00, m10, m01.     *)
(***************************************************************************)
Contour(a, m0, m1x, m1y) == [area |-> a, m00 |-> m0, m10 |-> m1x, m01 |-> m1y]

\* a contour of area 200 whose centroid truncates to (cx, cy)
Blob(cx, cy) == Contour(200, 200, 200 * cx + 100, 200 * cy + 199)

Images ==
    [ blank |-> << Contour(100, 100, 5000, 5000), Contour(40, 40, 400, 400),
                   Contour(0, 0, 0, 0) >>,
      palmA |-> << Blob(0, 0), Blob(50, 0), Blob(100, 0), Blob(150, 0),
                   Blob(200, 0), Blob(250, 0) >>,
      palmA5 |-> << Blob(0, 1), Blob(50, 1), Blob(100, 1), Blob(150, 1),
                    Blob(400, 400), Blob(250, 1), Contour(90, 90, 900, 900) >>,
      palmX |-> << Blob(3, 4), Blob(53, 4), Blob(103, 4), Blob(153, 4),
                   Blob(203, 4) >> ]

ImageNames == DOMAIN Images

(***************************************************************************)
(* PalmUPIPayment                                                          *)
(***************************************************************************)
\* lines 80-89: the key points of the contours that pass the area filter
RECURSIVE KeyPoints(_)
KeyPoints(contours) ==
    IF contours = <<>> THEN <<>>
    ELSE LET c == Head(contours)
             rest == KeyPoints(Tail(contours))
         IN  IF c.area > 100 /\ c.m00 # 0
             THEN << <<c.m10 \div c.m00, c.m01 \div c.m00>> >> \o rest
             ELSE rest

\* lines 64-89, image by image
Features == [i \in ImageNames |-> KeyPoints(Images[i])]

_extract_palm_features(palm_image) == Features[palm_image]

\* the comparison of line 126 written dist <= threshold
DistLe(p1, p2) == Sq(p1[1] - p2[1]) + Sq(p1[2] - p2[2]) <= Sq(threshold)

\* lines 125-126: np.sqrt(dx**2 + dy**2) < threshold, on integer points
DistLt(p1, p2) == Sq(p1[1] - p2[1]) + Sq(p1[2] - p2[2]) < Sq(threshold)

\* lines 122-128: the presented points that have a close enrolled point
RECURSIVE CountMatches(_, _)
CountMatches(features1, features2) ==
    IF features1 = <<>> THEN 0
    ELSE (IF \E j \in 1..Len(features2) : DistLt(Head(features1), features2[j])
          THEN 1 ELSE 0) + CountMatches(Tail(features1), features2)

_match_palm_features(features1, features2) ==
    IF features1 = <<>> \/ features2 = <<>> THEN Zero
    ELSE IF Len(features1) > 0
         THEN Frac(CountMatches(features1, features2), Len(features1))
         ELSE Zero

\* Fernet under the session's key: a token carries its timestamp and is
\* authenticated by the key that made it
Encrypt(key, plaintext, now) == [signed_by |-> key, ts |-> now, data |-> plaintext]

Decrypt(key, token) == IF token.signed_by = key THEN token.data ELSE "InvalidToken"

\* the session-state dict palm_db, in insertion order
DictHas(db, k) == \E i \in 1..Len(db) : db[i].palm_id = k

DictIndex(db, k) == CHOOSE i \in 1..Len(db) : db[i].palm_id = k

DictGet(db, k) == db[DictIndex(db, k)]

\* db.setdefault(k, rec) in place of db[k] = rec
DictSetDefault(db, k, rec) == IF DictHas(db, k) THEN db ELSE Append(db, rec)

DictSet(db, k, rec) ==
    IF DictHas(db, k) THEN [db EXCEPT ![DictIndex(db, k)] = rec]
    ELSE Append(db, rec)

\* line 102 without its second conjunct
AcceptAnyScore(score, best_score) == ScoreGt(score, best_score)

\* line 102 with score >= best_score
AcceptLatest(score, best_score) ==
    ~ScoreGt(best_score, score) /\ ScoreGt(score, AcceptThreshold)

\* line 102: the test that replaces the running best match
Accept(score, best_score) == ScoreGt(score, best_score) /\ ScoreGt(score, AcceptThreshold)

\* lines 97-104: the scan of the store from its entry i on
RECURSIVE BestMatch(_, _, _, _, _)
BestMatch(db, presented_features, i, best_match, best_score) ==
    IF i > Len(db) THEN [best_match |-> best_match, best_score |-> best_score]
    ELSE LET score == _match_palm_features(presented_features, db[i].palm_features)
         IN  IF Accept(score, best_score)
             THEN BestMatch(db, presented_features, i + 1, db[i].palm_id, score)
             ELSE BestMatch(db, presented_features, i + 1, best_match, best_score)

\* lines 106-109 testing best_score >= 0 in place of best_match
authenticate_palm_by_score(db, palm_image) ==
    LET presented_features == _extract_palm_features(palm_image)
        best == BestMatch(db, presented_features, 1, None, Zero)
    IN  IF ~ScoreGt(Zero, best.best_score)
        THEN [status |-> "authenticated", palm_id |-> best.best_match,
              score |-> best.best_score]
        ELSE [status |-> "failed", message |-> "Palm not recognized"]

\* lines 91-109
authenticate_palm(db, palm_image) ==
    LET presented_features == _extract_palm_features(palm_image)
        best == BestMatch(db, presented_features, 1, None, Zero)
    IN  IF best.best_match # None
        THEN [status |-> "authenticated", palm_id |-> best.best_match,
              score |-> best.best_score]
        ELSE [status |-> "failed", message |-> "Palm not recognized"]

\* lines 43-62: the store after the call, and the value returned
register_new_palm(db, key, now, user_id, palm_image) ==
    LET palm_features == _extract_palm_features(palm_image)
        palm_hash == Sha256Hex(StrList(palm_features))
        encrypted_upi_id == Encrypt(key, user_id.upi_id, now)
    IN  [palm_db |-> DictSet(db, palm_hash,
                        [palm_id |-> palm_hash,
                         user_id |-> user_id.user_id,
                         encrypted_upi_id |-> encrypted_upi_id,
                         registration_date |-> now,
                         palm_features |-> palm_features]),
         result |-> [status |-> "success", palm_id |-> palm_hash]]

\* what a call of initiate_payment that returned early has not computed
NotReached == [reached |-> FALSE]

\* lines 132-143 with the transaction id minted before the membership test
initiate_payment_mint_first(db, key, now, palm_id, amount, merchant_vpa, description) ==
    IF ~DictHas(db, palm_id)
    THEN [response |-> [status |-> "failed", message |-> "Invalid palm ID",
                        transaction_id |-> "TXN" \o ToString(now)],
          payment_request |-> NotReached]
    ELSE LET user_data == DictGet(db, palm_id)
             upi_id == Decrypt(key, user_data.encrypted_upi_id)
             transaction_id == "TXN" \o ToString(now) \o Last(user_data.user_id, 4)
         IN  [response |-> [status |-> "success",
                            transaction_id |-> transaction_id,
                            message |-> "Payment processed successfully"],
              payment_request |-> [reached |-> TRUE,
                                   transaction_id |-> transaction_id,
                                   payer_vpa |-> upi_id,
                                   payee_vpa |-> merchant_vpa,
                                   amount |-> amount,
                                   description |-> description,
                                   merchant_id |-> "MERCHANT123456"]]

\* lines 132-165: the value returned and the payment_request built on the way
initiate_payment(db, key, now, palm_id, amount, merchant_vpa, description) ==
    IF ~DictHas(db, palm_id)
    THEN [response |-> [status |-> "failed", message |-> "Invalid palm ID"],
          payment_request |-> NotReached]
    ELSE LET user_data == DictGet(db, palm_id)
             upi_id == Decrypt(key, user_data.encrypted_upi_id)
             transaction_id == "TXN" \o ToString(now) \o Last(user_data.user_id, 4)
         IN  [response |-> [status |-> "success",
                            transaction_id |-> transaction_id,
                            message |-> "Payment processed successfully"],
              payment_request |-> [reached |-> TRUE,
                                   transaction_id |-> transaction_id,
                                   payer_vpa |-> upi_id,
                                   payee_vpa |-> merchant_vpa,
                                   amount |-> amount,
                                   description |-> description,
                                   merchant_id |-> "MERCHANT123456"]]

(***************************************************************************)
(* State                                                                   *)
(***************************************************************************)
VARIABLES
    palm_db,            \* st.session_state.palm_db
    encryption_key,     \* st.session_state.encryption_key
    clock,              \* what time.time() and datetime.now() read
    ui,                 \* the message the last handler displayed
    presented,          \* the image the last authentication was given
    auth_result,        \* what the last authenticate_palm returned
    best_score,         \* best_score as authenticate_palm returned
    pay_palm_id,        \* the palm_id the last initiate_payment was given
    payment_request,    \* payment_request of the last initiate_payment
    payment_result,     \* what the last initiate_payment returned
    txn_log,            \* every transaction id minted so far, in order
    enrolled_upi,       \* palm id -> the upi_id of the latest enrollment
    last_overwrite,     \* the palm id last re-enrolled with another upi_id
    features1,          \* the matcher on its own: presented points,
    features2,          \*   enrolled points,
    match_score         \*   and the score returned

vars == <<palm_db, encryption_key, clock, ui, presented, auth_result, best_score,
          pay_palm_id, payment_request, payment_result, txn_log, enrolled_upi,
          last_overwrite, features1, features2, match_score>>

matcher_vars == <<features1, features2, match_score>>

\* a local that the last handler did not assign
NotCalled == [status |-> "not called"]

\* Fernet.generate_key() may return any key
Keys == {"key1", "key2"}

\* what the Register form can hold; the last entry has a field left empty
Forms ==
    { [user_id |-> "U1", user_name |-> "Alice", upi_id |-> "alice@bank"],
      [user_id |-> "9876541234", user_name |-> "Bob", upi_id |-> "bob@upi"],
      [user_id |-> "9876541234", user_name |-> "Bob", upi_id |-> ""] }

\* what the Merchant UPI ID field can hold
MerchantVpas == {"merchant@bank", ""}

PalmIdTable == [i \in ImageNames |-> Sha256Hex(StrList(Features[i]))]

PalmIdOf(palm_image) == PalmIdTable[palm_image]

\* palm ids a caller may pass: those of the images, and one never enrolled
PalmIds == {PalmIdOf(i) : i \in ImageNames} \cup {"0000"}

\* the registry, the session key and the handlers' locals before any handler ran
InitSession ==
    /\ palm_db = <<>>
    /\ encryption_key \in Keys
    /\ clock = 0
    /\ ui = ""
    /\ presented = None
    /\ auth_result = NotCalled
    /\ best_score = Zero
    /\ pay_palm_id = None
    /\ payment_request = NotReached
    /\ payment_result = NotCalled
    /\ txn_log = <<>>
    /\ enrolled_upi = [p \in PalmIds |-> None]
    /\ last_overwrite = None

Init ==
    /\ InitSession
    /\ features1 = <<>>
    /\ features2 = <<>>
    /\ match_score = <<>>

\* a second passes
Tick ==
    /\ clock < MaxClock
    /\ clock' = clock + 1
    /\ UNCHANGED <<palm_db, encryption_key, ui, presented, auth_result, best_score,
                   pay_palm_id, payment_request, payment_result, txn_log,
                   enrolled_upi, last_overwrite, matcher_vars>>

NoAuth ==
    /\ presented' = None
    /\ auth_result' = NotCalled
    /\ best_score' = Zero

NoPayment ==
    /\ pay_palm_id' = None
    /\ payment_request' = NotReached
    /\ payment_result' = NotCalled

\* the history of enrollments, kept beside the store
RecordEnrollment(palm_id, upi_id) ==
    /\ enrolled_upi' = [enrolled_upi EXCEPT ![palm_id] = upi_id]
    /\ last_overwrite' = IF enrolled_upi[palm_id] \notin {None, upi_id}
                         THEN palm_id ELSE last_overwrite

\* the store takes a new key only while it holds fewer than MaxStore
StoreHasRoom(image) == DictHas(palm_db, PalmIdOf(image)) \/ Len(palm_db) < MaxStore

(***************************************************************************)
(* main(): the two button handlers                                         *)
(***************************************************************************)
\* lines 224-242: the "Register Palm" button
RegisterPalm(form, image) ==
    /\ StoreHasRoom(image)
    /\ IF form.user_name = "" \/ form.user_id = "" \/ form.upi_id = ""
       THEN /\ ui' = "Please fill in all user information"
            /\ UNCHANGED <<palm_db, enrolled_upi, last_overwrite>>
       ELSE \E r \in {register_new_palm(palm_db, encryption_key, clock, form, image)} :
                /\ palm_db' = r.palm_db
                /\ RecordEnrollment(r.result.palm_id, form.upi_id)
                /\ ui' = IF r.result.status = "success"
                         THEN "Palm registered successfully"
                         ELSE "Registration failed"
    /\ NoAuth
    /\ NoPayment
    /\ UNCHANGED <<encryption_key, clock, txn_log, matcher_vars>>

\* lines 260-311: the "Authenticate & Pay" button
AuthenticateAndPayStep(merchant_vpa, amount, description, image) ==
    /\ IF merchant_vpa = "" \/ amount <= 0
       THEN /\ ui' = "Please enter valid payment details"
            /\ NoAuth
            /\ NoPayment
       ELSE \E a \in {authenticate_palm(palm_db, image)} :
                /\ presented' = image
                /\ auth_result' = a
                /\ best_score' = BestMatch(palm_db, _extract_palm_features(image),
                                           1, None, Zero).best_score
                /\ IF a.status = "authenticated"
                   THEN \E p \in {initiate_payment(palm_db, encryption_key, clock,
                                      a.palm_id, amount, merchant_vpa, description)} :
                            /\ pay_palm_id' = a.palm_id
                            /\ payment_request' = p.payment_request
                            /\ payment_result' = p.response
                            /\ ui' = IF p.response.status = "success"
                                     THEN "Payment successful"
                                     ELSE "Payment failed"
                   ELSE /\ NoPayment
                        /\ ui' = "Authentication failed. Palm not recognized."
    /\ UNCHANGED <<palm_db, encryption_key, clock, enrolled_upi, last_overwrite,
                   matcher_vars>>

AuthenticateAndPay(merchant_vpa, amount, description, image) ==
    /\ AuthenticateAndPayStep(merchant_vpa, amount, description, image)
    /\ UNCHANGED txn_log

Next ==
    \/ Tick
    \/ \E form \in Forms, image \in ImageNames : RegisterPalm(form, image)
    \/ \E merchant_vpa \in MerchantVpas, image \in ImageNames :
          AuthenticateAndPay(merchant_vpa, 100, "", image)

Spec == Init /\ [][Next]_vars

(***************************************************************************)
(* The same handlers, with every minted transaction id kept in txn_log     *)
(***************************************************************************)
Minted(response) ==
    IF response.status = "success" THEN <<response.transaction_id>> ELSE <<>>

AuthenticateAndPayLogged(merchant_vpa, amount, description, image) ==
    /\ Len(txn_log) < MaxTxn
    /\ AuthenticateAndPayStep(merchant_vpa, amount, description, image)
    /\ txn_log' = txn_log \o Minted(payment_result')

NextLogged ==
    \/ Tick
    \/ \E form \in Forms, image \in ImageNames : RegisterPalm(form, image)
    \/ \E merchant_vpa \in MerchantVpas, image \in ImageNames :
          AuthenticateAndPayLogged(merchant_vpa, 100, "", image)

SpecLogged == Init /\ [][NextLogged]_vars

(***************************************************************************)
(* The methods of PalmUPIPayment called one at a time by any caller        *)
(***************************************************************************)
ValidForms == {f \in Forms : f.user_name # "" /\ f.user_id # "" /\ f.upi_id # ""}

CallRegister(user_id, palm_image) ==
    /\ StoreHasRoom(palm_image)
    /\ \E r \in {register_new_palm(palm_db, encryption_key, clock, user_id, palm_image)} :
          /\ palm_db' = r.palm_db
          /\ RecordEnrollment(r.result.palm_id, user_id.upi_id)
    /\ NoAuth
    /\ NoPayment
    /\ UNCHANGED <<encryption_key, clock, ui, txn_log, matcher_vars>>

CallAuthenticate(palm_image) ==
    /\ presented' = palm_image
    /\ auth_result' = authenticate_palm(palm_db, palm_image)
    /\ best_score' = BestMatch(palm_db, _extract_palm_features(palm_image),
                               1, None, Zero).best_score
    /\ NoPayment
    /\ UNCHANGED <<palm_db, encryption_key, clock, ui, txn_log, enrolled_upi,
                   last_overwrite, matcher_vars>>

CallInitiatePayment(palm_id, amount, merchant_vpa, description) ==
    /\ \E p \in {initiate_payment(palm_db, encryption_key, clock, palm_id, amount,
                                  merchant_vpa, description)} :
          /\ pay_palm_id' = palm_id
          /\ payment_request' = p.payment_request
          /\ payment_result' = p.response
    /\ NoAuth
    /\ UNCHANGED <<palm_db, encryption_key, clock, ui, txn_log, enrolled_upi,
                   last_overwrite, matcher_vars>>

NextAPI ==
    \/ Tick
    \/ \E user_id \in ValidForms, image \in ImageNames : CallRegister(user_id, image)
    \/ \E image \in ImageNames : CallAuthenticate(image)
    \/ \E palm_id \in PalmIds : CallInitiatePayment(palm_id, 100, "merchant@bank", "")

SpecAPI == Init /\ [][NextAPI]_vars

(***************************************************************************)
(* authenticate_palm over every store that up to MaxEnroll enrollments at  *)
(* second 0 leave behind                                                   *)
(***************************************************************************)
RECURSIVE EnrollAll(_, _, _)
EnrollAll(db, key, enrollments) ==
    IF enrollments = <<>> THEN db
    ELSE EnrollAll(register_new_palm(db, key, 0, Head(enrollments)[1],
                                     Head(enrollments)[2]).palm_db,
                   key, Tail(enrollments))

EnrollmentLists == UNION { [1..n -> ValidForms \X ImageNames] : n \in 0..MaxEnroll }

StoresOf(key) == { EnrollAll(<<>>, key, l) : l \in EnrollmentLists }

InitAuth ==
    /\ encryption_key \in Keys
    /\ palm_db \in StoresOf(encryption_key)
    /\ enrolled_upi = [p \in PalmIds |->
                          IF DictHas(palm_db, p)
                          THEN Decrypt(encryption_key, DictGet(palm_db, p).encrypted_upi_id)
                          ELSE None]
    /\ last_overwrite = None
    /\ clock = 0
    /\ ui = ""
    /\ presented = None
    /\ auth_result = NotCalled
    /\ best_score = Zero
    /\ pay_palm_id = None
    /\ payment_request = NotReached
    /\ payment_result = NotCalled
    /\ txn_log = <<>>
    /\ features1 = <<>>
    /\ features2 = <<>>
    /\ match_score = <<>>

NextAuth == \E image \in ImageNames : CallAuthenticate(image)

SpecAuth == InitAuth /\ [][NextAuth]_vars

(***************************************************************************)
(* _match_palm_features on its own, over every pair of short point lists   *)
(***************************************************************************)
\* points at distance 0, 9, exactly 10 and 30 from the origin
MatchPoints == { <<0, 0>>, <<9, 0>>, <<6, 8>>, <<30, 0>> }

PointLists == UNION { [1..n -> MatchPoints] : n \in 0..MaxLen }

InitMatch ==
    /\ InitSession
    /\ features1 \in PointLists
    /\ features2 \in PointLists
    /\ match_score = <<>>

CallMatch ==
    /\ match_score = <<>>
    /\ match_score' = _match_palm_features(features1, features2)
    /\ UNCHANGED <<palm_db, encryption_key, clock, ui, presented, auth_result,
                   best_score, pay_palm_id, payment_request, payment_result,
                   txn_log, enrolled_upi, last_overwrite, features1, features2>>

NextMatch == CallMatch

SpecMatch == InitMatch /\ [][NextMatch]_vars

(***************************************************************************)
(* Properties                                                              *)
(***************************************************************************)
Failed == [status |-> "failed", message |-> "Palm not recognized"]

InvalidPalmId == [status |-> "failed", message |-> "Invalid palm ID"]

\* the score of the presented image against entry i of the store
ScoreAgainst(i) ==
    _match_palm_features(Features[presented], palm_db[i].palm_features)

\* C1: in the Authenticate & Pay flow a payment response carrying a
\* transaction id exists only together with an "authenticated" result for the
\* presented image: the image yielded key points, the paid palm id is the one
\* authenticate_palm returned, and that record scored above 0.8; after a
\* failed authentication initiate_payment was not called at all.
TransactionOnlyAfterAuthentication ==
    /\ payment_result.status = "success" =>
          /\ presented # None
          /\ auth_result.status = "authenticated"
          /\ Features[presented] # <<>>
          /\ auth_result.palm_id = pay_palm_id
          /\ \E i \in 1..Len(palm_db) :
                /\ palm_db[i].palm_id = pay_palm_id
                /\ ScoreGt(ScoreAgainst(i), AcceptThreshold)
    /\ auth_result.status # "authenticated" =>
          /\ payment_result = NotCalled
          /\ payment_request = NotReached

TransactionCreated ==
    /\ payment_result.status = "success"
    /\ auth_result.status = "authenticated"
    /\ ui = "Payment successful"

\* entry i of the store attains the maximum score for the presented image
IsMaximal(i) == \A j \in 1..Len(palm_db) : ~ScoreGt(ScoreAgainst(j), ScoreAgainst(i))

\* C2: authenticate_palm returns "authenticated" with palm id p and score s
\* exactly when some enrolled record scores above 0.8; then s is the maximum
\* of the scores over the store, s > 0.8, and p is the first record in
\* store order that attains the maximum; otherwise it returns "failed" (a
\* best score of exactly 0.8 included).
BestMatchPolicy ==
    presented # None =>
       IF \E i \in 1..Len(palm_db) : ScoreGt(ScoreAgainst(i), AcceptThreshold)
       THEN /\ auth_result.status = "authenticated"
            /\ ScoreGt(auth_result.score, AcceptThreshold)
            /\ \E i \in 1..Len(palm_db) :
                  /\ palm_db[i].palm_id = auth_result.palm_id
                  /\ auth_result.score = ScoreAgainst(i)
                  /\ IsMaximal(i)
                  /\ \A j \in 1..(i - 1) : ~IsMaximal(j)
       ELSE auth_result = Failed

\* two records tie at the maximum and the earlier of them is returned
TieAtMaximum ==
    /\ presented # None
    /\ auth_result.status = "authenticated"
    /\ \E i, j \in 1..Len(palm_db) :
          /\ i < j
          /\ IsMaximal(i)
          /\ IsMaximal(j)
          /\ palm_db[i].palm_id = auth_result.palm_id

\* C3: the key of every record is the digest of its feature vector, so equal
\* vectors give equal TemplateIDs; the store holds one record per key; the
\* stored credential of a key decrypts to the upi_id of the latest enrollment
\* under it, and so does the payer of every initiate_payment on that key.
ReenrollmentReplacesCredential ==
    /\ \A i, j \in 1..Len(palm_db) :
          palm_db[i].palm_id = palm_db[j].palm_id => i = j
    /\ \A i \in 1..Len(palm_db) :
          /\ palm_db[i].palm_id = Sha256Hex(StrList(palm_db[i].palm_features))
          /\ Decrypt(encryption_key, palm_db[i].encrypted_upi_id)
                = enrolled_upi[palm_db[i].palm_id]
    /\ \A p \in PalmIds : enrolled_upi[p] # None <=> DictHas(palm_db, p)
    /\ payment_request.reached =>
          payment_request.payer_vpa = enrolled_upi[pay_palm_id]

PaidAfterReenrollment ==
    /\ payment_request.reached
    /\ pay_palm_id = last_overwrite
    /\ payment_result.status = "success"

\* C4: no record keyed by the digest of an empty feature vector is ever in
\* the store, and no record holds an empty feature vector.
NoRecordForEmptyFeatures ==
    /\ ~DictHas(palm_db, Sha256Hex(StrList(<<>>)))
    /\ \A i \in 1..Len(palm_db) : palm_db[i].palm_features # <<>>

\* C5: no two successful initiate_payment calls return the same
\* transaction id.
TransactionIdsUnique ==
    \A i, j \in 1..Len(txn_log) : txn_log[i] = txn_log[j] => i = j

\* C6: the result authenticate_palm returned for an image without key points
\* differs from every "failed" result it returns, against the same store, for
\* an image with key points.
ExtractionFailureDistinct ==
    (presented # None /\ Features[presented] = <<>>) =>
       \A j \in ImageNames :
          (Features[j] # <<>> /\ authenticate_palm(palm_db, j).status = "failed")
             => authenticate_palm(palm_db, j) # auth_result

\* C7: when the presented image has the feature vector of an enrolled record,
\* authenticate_palm returns "authenticated" with score 1.0 and the payment
\* on the returned palm id succeeds with a transaction id that starts "TXN".
EnrolledVectorPays ==
    (presented # None /\ DictHas(palm_db, PalmIdOf(presented))) =>
       /\ auth_result.status = "authenticated"
       /\ auth_result.score = <<1, 1>>
       /\ payment_result.status = "success"
       /\ SubSeq(payment_result.transaction_id, 1, 3) = "TXN"

UnknownTemplateRejected ==
    [][ (pay_palm_id' # None /\ ~DictHas(palm_db, pay_palm_id')) =>
           /\ payment_result' = InvalidPalmId
           /\ payment_request' = NotReached
           /\ palm_db' = palm_db
           /\ txn_log' = txn_log ]_vars

UnknownTemplatePresented ==
    /\ pay_palm_id # None
    /\ palm_db # <<>>
    /\ ~DictHas(palm_db, pay_palm_id)
    /\ payment_result.status = "failed"

\* squared Euclidean distance of two points
Dist2(p, q) == (p[1] - q[1]) * (p[1] - q[1]) + (p[2] - q[2]) * (p[2] - q[2])

\* the presented points with an enrolled point at squared distance below /
\* at most d2
CloseBelow(d2) ==
    { i \in 1..Len(features1) :
         \E j \in 1..Len(features2) : Dist2(features1[i], features2[j]) < d2 }

CloseAtMost(d2) ==
    { i \in 1..Len(features1) :
         \E j \in 1..Len(features2) : Dist2(features1[i], features2[j]) <= d2 }

\* C10 (as amended): the score is the number of presented points that have an
\* enrolled point at Euclidean distance strictly below 10, divided by the
\* number of presented points, and 0 when no point is presented.
ScoreCountsPointsCloserThan10 ==
    match_score # <<>> =>
       IF features1 = <<>> THEN match_score = Zero
       ELSE match_score[1] * Len(features1)
               = Cardinality(CloseBelow(100)) * match_score[2]

\* C10 (as written): the same with "within distance 10" counting a point at
\* distance exactly 10.
ScoreCountsPointsWithin10 ==
    match_score # <<>> =>
       IF features1 = <<>> THEN match_score = Zero
       ELSE match_score[1] * Len(features1)
               = Cardinality(CloseAtMost(100)) * match_score[2]

ScoredWithPointAtDistance10 ==
    /\ match_score # <<>>
    /\ CloseBelow(100) # {}
    /\ CloseAtMost(100) # CloseBelow(100)

====
